---- MODULE Spec2Model ----
(***************************************************************************)
(* tcalc: a date/time expression calculator.                               *)
(*   core/src/lexer.rs      text -> tokens                                 *)
(*   core/src/parser.rs     tokens -> Expr                                 *)
(*   core/src/evaluator.rs  Expr -> Value -> text                          *)
(*   core/src/lib.rs        run: the three stages in a row                 *)
(* Text is a sequence of one-character strings.  A 64-bit integer is a     *)
(* sequence of five 16-bit limbs, least significant first, so that every   *)
(* i64 and every product the evaluator forms from one is exact.            *)
(***************************************************************************)
EXTENDS Integers, Sequences, FiniteSets, TLC

VARIABLES
    input,      \* the text handed to Lexer::new / run
    lx,         \* a Lexer driven directly through next_token / Iterator::next
    pc,         \* run's position: "parse", "eval", "show", "done", "panicked"
    ast,        \* parse's result
    stack,      \* eval's call stack
    ret,        \* the Result the innermost finished eval call returned
    clock,      \* the wall clock OffsetDateTime::now_utc reads
    reads,      \* the readings of the wall clock this evaluation has made
    result,     \* what run returned
    checked_build   \* whether the build panics on integer overflow (debug) or wraps

vars == <<input, lx, pc, ast, stack, ret, clock, reads, result, checked_build>>

(***************************************************************************)
(* Bounds of the model.                                                    *)
(***************************************************************************)
MaxLen == 4         \* longest text of the lexer specification
MaxCalls == 7       \* next_token calls made on one Lexer
MaxOps == 2         \* operators in a chain of primaries
MaxShiftDays == 400 \* whole days a date is followed over the calendar

\* v bound to x in F(x): `let x = v; F(x)`
Let(v, F(_)) == CHOOSE r \in {F(x) : x \in {v}} : TRUE

(***************************************************************************)
(* Machine integers.                                                       *)
(***************************************************************************)
Base == 65536

BigZero == <<0, 0, 0, 0, 0>>

\* n in 0 .. 2^31 - 1
BigOfInt(n) == <<n % Base, (n \div Base) % Base, 0, 0, 0>>

\* i64::MAX = 2^63 - 1
I64Max == <<65535, 65535, 65535, 32767, 0>>

\* i32::MAX = 2^31 - 1
I32Max == <<65535, 32767, 0, 0, 0>>

BigLess(a, b) ==
    \E i \in 1..5 : a[i] < b[i] /\ \A j \in (i + 1)..5 : a[j] = b[j]

BigLeq(a, b) == a = b \/ BigLess(a, b)

\* a * c for 0 <= c < 2^15
BigMulSmall(a, c) ==
    LET p1 == a[1] * c
        p2 == a[2] * c + (p1 \div Base)
        p3 == a[3] * c + (p2 \div Base)
        p4 == a[4] * c + (p3 \div Base)
        p5 == a[5] * c + (p4 \div Base)
    IN  <<p1 % Base, p2 % Base, p3 % Base, p4 % Base, p5 % Base>>

BigAdd(a, b) ==
    LET s1 == a[1] + b[1]
        s2 == a[2] + b[2] + (s1 \div Base)
        s3 == a[3] + b[3] + (s2 \div Base)
        s4 == a[4] + b[4] + (s3 \div Base)
        s5 == a[5] + b[5] + (s4 \div Base)
    IN  <<s1 % Base, s2 % Base, s3 % Base, s4 % Base, s5 % Base>>

\* a - b for b <= a
BigSub(a, b) ==
    LET d1 == a[1] - b[1]
        d2 == a[2] - b[2] + (d1 \div Base)
        d3 == a[3] - b[3] + (d2 \div Base)
        d4 == a[4] - b[4] + (d3 \div Base)
        d5 == a[5] - b[5] + (d4 \div Base)
    IN  <<d1 % Base, d2 % Base, d3 % Base, d4 % Base, d5 % Base>>

\* a / d and a % d for 0 < d < 2^15
BigDivSmall(a, d) ==
    LET r5 == a[5]
        r4 == (r5 % d) * Base + a[4]
        r3 == (r4 % d) * Base + a[3]
        r2 == (r3 % d) * Base + a[2]
        r1 == (r2 % d) * Base + a[1]
    IN  <<r1 \div d, r2 \div d, r3 \div d, r4 \div d, r5 \div d>>

BigModSmall(a, d) ==
    LET r5 == a[5]
        r4 == (r5 % d) * Base + a[4]
        r3 == (r4 % d) * Base + a[3]
        r2 == (r3 % d) * Base + a[2]
        r1 == (r2 % d) * Base + a[1]
    IN  r1 % d

\* the value of a, for a <= i32::MAX
BigToInt(a) == a[1] + a[2] * Base

\* `as u64` of a product: the low 64 bits
BigWrap64(a) == <<a[1], a[2], a[3], a[4], 0>>

(***************************************************************************)
(* Characters.                                                             *)
(***************************************************************************)
Digits == <<"0", "1", "2", "3", "4", "5", "6", "7", "8", "9">>

\* '0'..='9' / char::is_ascii_digit
IsDigit(c) == \E i \in 1..10 : Digits[i] = c

DigitVal(c) == (CHOOSE i \in 1..10 : Digits[i] = c) - 1

\* 'a'..='z' | 'A'..='Z' / char::is_ascii_alphabetic
IsAlpha(c) ==
    c \in {"a", "b", "c", "d", "e", "f", "g", "h", "i", "j", "k", "l", "m",
           "n", "o", "p", "q", "r", "s", "t", "u", "v", "w", "x", "y", "z",
           "A", "B", "C", "D", "E", "F", "G", "H", "I", "J", "K", "L", "M",
           "N", "O", "P", "Q", "R", "S", "T", "U", "V", "W", "X", "Y", "Z"}

\* char::is_whitespace, which Scanner::eat_whitespace skips
IsWhitespace(c) == c \in {" ", "\t", "\n", "\r"}

(***************************************************************************)
(* core/src/lexer.rs                                                       *)
(***************************************************************************)
Token(type, num, text) == [type |-> type, num |-> num, text |-> text]

Plus == Token("Plus", BigZero, "")
Minus == Token("Minus", BigZero, "")
Colon == Token("Colon", BigZero, "")
Slash == Token("Slash", BigZero, "")
Eof == Token("Eof", BigZero, "")
Illegal == Token("Illegal", BigZero, "")
Number(n) == Token("Number", n, "")
Ident(s) == Token("Ident", BigZero, s)

\* Scanner::eat_while(char::is_ascii_digit): the cursor after the longest
\* run of digits that starts at cursor cur
eat_while_digit(text, cur) ==
    CHOOSE e \in cur..Len(text) :
        /\ \A i \in (cur + 1)..e : IsDigit(text[i])
        /\ e < Len(text) => ~IsDigit(text[e + 1])

\* Scanner::eat_while(char::is_ascii_alphabetic)
eat_while_alpha(text, cur) ==
    CHOOSE e \in cur..Len(text) :
        /\ \A i \in (cur + 1)..e : IsAlpha(text[i])
        /\ e < Len(text) => ~IsAlpha(text[e + 1])

\* Scanner::eat_whitespace
eat_whitespace(text, cur) ==
    CHOOSE e \in cur..Len(text) :
        /\ \A i \in (cur + 1)..e : IsWhitespace(text[i])
        /\ e < Len(text) => ~IsWhitespace(text[e + 1])

\* str::parse::<i64> of text[from+1 .. to], a run of digits: the value, or
\* an error as soon as the value so far exceeds i64::MAX
RECURSIVE parse_i64(_, _, _, _)
parse_i64(text, from, to, acc) ==
    IF from >= to THEN [ok |-> TRUE, n |-> acc]
    ELSE Let(BigAdd(BigMulSmall(acc, 10), BigOfInt(DigitVal(text[from + 1]))),
             LAMBDA sum :
                 IF BigLess(I64Max, sum) THEN [ok |-> FALSE, n |-> BigZero]
                 ELSE Let(from + 1, LAMBDA i : parse_i64(text, i, to, sum)))

\* the string of text[from+1 .. to]
RECURSIVE to_string(_, _, _)
to_string(text, from, to) ==
    IF from >= to THEN ""
    ELSE Let(from + 1, LAMBDA i : text[i] \o to_string(text, i, to))

\* Lexer::number, entered with the first digit eaten
number(text, cur) ==
    Let(eat_while_digit(text, cur - 1), LAMBDA end :
        Let(parse_i64(text, cur - 1, end, BigZero), LAMBDA n :
            [tok |-> IF n.ok THEN Number(n.n) ELSE Illegal, cur |-> end]))

\* Lexer::ident, entered with the first letter eaten
ident(text, cur) ==
    Let(eat_while_alpha(text, cur - 1), LAMBDA end :
        [tok |-> Ident(to_string(text, cur - 1, end)), cur |-> end])

RECURSIVE next_token(_, _)

\* Lexer::whitespace, entered with one space eaten
whitespace(text, cur) ==
    Let(eat_whitespace(text, cur), LAMBDA after : next_token(text, after))

\* Lexer::next_token on a lexer whose cursor is cur: the token and the cursor
next_token(text, cur) ==
    IF cur >= Len(text) THEN [tok |-> Eof, cur |-> cur]
    ELSE Let(text[cur + 1], LAMBDA c :
             CASE c = "+" -> [tok |-> Plus, cur |-> cur + 1]
               [] c = "-" -> [tok |-> Minus, cur |-> cur + 1]
               [] c = ":" -> [tok |-> Colon, cur |-> cur + 1]
               [] c = "/" -> [tok |-> Slash, cur |-> cur + 1]
               [] c = " " -> whitespace(text, cur + 1)
               [] IsDigit(c) -> number(text, cur + 1)
               [] IsAlpha(c) -> ident(text, cur + 1)
               [] OTHER -> [tok |-> Illegal, cur |-> cur + 1])

\* Iterator::next
\* an iterator that ends at Eof: what Iterator::next is not
iter_next_fused(text, cur) ==
    Let(next_token(text, cur), LAMBDA t :
        [some |-> t.tok.type # "Eof", tok |-> t.tok, cur |-> t.cur])

iter_next(text, cur) ==
    Let(next_token(text, cur), LAMBDA t : [some |-> TRUE, tok |-> t.tok, cur |-> t.cur])

(***************************************************************************)
(* core/src/parser.rs                                                      *)
(***************************************************************************)
HOURS_IN_HALF_DAY == 12

\* the value is an integer of lo..hi
InRange(n, lo, hi) ==
    /\ n[5] = 0 /\ n[4] = 0 /\ n[3] = 0 /\ n[2] < 32768
    /\ BigToInt(n) \in lo..hi

\* `n as u8` of a non-negative i64
as_u8(n) == n[1] % 256

\* `n as u32` of a non-negative i64: its two low limbs
as_u32(n) == <<n[1], n[2]>>

\* Expr
ExprDate(y, m, d) == [kind |-> "Date", year |-> y, month |-> m, day |-> d]
ExprTime(h, m) == [kind |-> "Time", hour |-> h, minute |-> m]
ExprDateTime(y, m, d, h, mi) ==
    [kind |-> "DateTime", year |-> y, month |-> m, day |-> d, hour |-> h, minute |-> mi]
ExprKeyword(k) == [kind |-> "Keyword", keyword |-> k]
ExprDuration(v, u) == [kind |-> "Duration", value |-> v, unit |-> u]
ExprBinOp(l, op, r) == [kind |-> "BinOp", left |-> l, op |-> op, right |-> r]
NoExpr == [kind |-> "None"]

\* ParsingError
ParsingError(e, tok, text) == [err |-> e, tok |-> tok, text |-> text]
UnexpectedToken(tok) == ParsingError("UnexpectedToken", tok, "")
UnknownKeyword(s) == ParsingError("UnknownKeyword", Eof, s)
InvalidTimeText(n, suffix) == ParsingError("InvalidTime", Number(n), suffix)
UnexpectedEof == ParsingError("UnexpectedEof", Eof, "")
ExpectedIdent == ParsingError("ExpectedIdent", Eof, "")
ExpectedNumber == ParsingError("ExpectedNumber", Eof, "")
ExpectedSlash == ParsingError("ExpectedSlash", Eof, "")
ExpectedColon == ParsingError("ExpectedColon", Eof, "")
ExpectedUnit == ParsingError("ExpectedUnit", Eof, "")
NoError == ParsingError("None", Eof, "")

POk(e, ts) == [ok |-> TRUE, expr |-> e, err |-> NoError, ts |-> ts]
PErr(e, ts) == [ok |-> FALSE, expr |-> NoExpr, err |-> e, ts |-> ts]

\* Peekable<Lexer>: the lexer's cursor and the token peeked, if any
Peekable(cur) == [cur |-> cur, has |-> FALSE, some |-> FALSE, tok |-> Eof]

\* Peekable::peek: the next item without consuming it
peek(text, ts) ==
    IF ts.has THEN [some |-> ts.some, tok |-> ts.tok, ts |-> ts]
    ELSE Let(iter_next(text, ts.cur), LAMBDA t :
             [some |-> t.some, tok |-> t.tok,
              ts |-> [cur |-> t.cur, has |-> TRUE, some |-> t.some, tok |-> t.tok]])

\* Peekable::next: the peeked item if there is one, else the lexer's next
next(text, ts) ==
    IF ts.has THEN [some |-> ts.some, tok |-> ts.tok, ts |-> Peekable(ts.cur)]
    ELSE Let(iter_next(text, ts.cur), LAMBDA t :
             [some |-> t.some, tok |-> t.tok, ts |-> Peekable(t.cur)])

\* Unit::try_from(&str)
unit_try_from(s) ==
    CASE s \in {"years", "year", "y"} -> [ok |-> TRUE, unit |-> "Years"]
      [] s \in {"months", "month"} -> [ok |-> TRUE, unit |-> "Months"]
      [] s \in {"days", "day", "d"} -> [ok |-> TRUE, unit |-> "Days"]
      [] s \in {"hours", "hour", "h"} -> [ok |-> TRUE, unit |-> "Hours"]
      [] s \in {"minutes", "minute", "m"} -> [ok |-> TRUE, unit |-> "Minutes"]
      [] s \in {"seconds", "second", "s"} -> [ok |-> TRUE, unit |-> "Seconds"]
      [] OTHER -> [ok |-> FALSE, unit |-> "None"]

expect_token(text, ts, expected, err) ==
    Let(next(text, ts), LAMBDA t :
        IF t.some /\ t.tok = expected THEN [ok |-> TRUE, err |-> NoError, ts |-> t.ts]
        ELSE IF t.some THEN [ok |-> FALSE, err |-> UnexpectedToken(t.tok), ts |-> t.ts]
        ELSE [ok |-> FALSE, err |-> err, ts |-> t.ts])

expect_number(text, ts) ==
    Let(next(text, ts), LAMBDA t :
        IF t.some /\ t.tok.type = "Number"
        THEN [ok |-> TRUE, n |-> t.tok.num, err |-> NoError, ts |-> t.ts]
        ELSE [ok |-> FALSE, n |-> BigZero, err |-> ExpectedNumber, ts |-> t.ts])

parse_duration(text, ts, value) ==
    Let(next(text, ts), LAMBDA t :
        IF t.some /\ t.tok.type = "Ident"
        THEN Let(unit_try_from(t.tok.text), LAMBDA u :
                 IF u.ok THEN POk(ExprDuration(value, u.unit), t.ts)
                 ELSE PErr(UnknownKeyword(t.tok.text), t.ts))
        ELSE PErr(ExpectedUnit, t.ts))

parse_time(text, ts, hour) ==
    Let(expect_token(text, ts, Colon, ExpectedColon), LAMBDA c :
        IF ~c.ok THEN PErr(c.err, c.ts)
        ELSE Let(expect_number(text, c.ts), LAMBDA minute :
                 IF ~minute.ok THEN PErr(minute.err, minute.ts)
                 ELSE POk(ExprTime(as_u8(hour), as_u8(minute.n)), minute.ts)))

\* the time suffix of parse_date, entered when a Number follows the day
parse_date_time(text, ts, year, month, day) ==
    Let(expect_number(text, ts), LAMBDA hour :
        IF ~hour.ok THEN PErr(hour.err, hour.ts)
        ELSE Let(expect_token(text, hour.ts, Colon, ExpectedColon), LAMBDA c :
                 IF ~c.ok THEN PErr(c.err, c.ts)
                 ELSE Let(expect_number(text, c.ts), LAMBDA minute :
                          IF ~minute.ok THEN PErr(minute.err, minute.ts)
                          ELSE POk(ExprDateTime(as_u32(year), as_u8(month), as_u8(day),
                                                as_u8(hour.n), as_u8(minute.n)),
                                   minute.ts))))

\* the end of parse_date, entered with year, month and day consumed
parse_date_end(text, ts, year, month, day) ==
    Let(peek(text, ts), LAMBDA p :
        IF p.some /\ p.tok.type = "Number"
        THEN parse_date_time(text, p.ts, year, month, day)
        ELSE POk(ExprDate(as_u32(year), as_u8(month), as_u8(day)), p.ts))

parse_date(text, ts, year) ==
    Let(expect_token(text, ts, Slash, ExpectedSlash), LAMBDA s1 :
        IF ~s1.ok THEN PErr(s1.err, s1.ts)
        ELSE Let(expect_number(text, s1.ts), LAMBDA month :
                 IF ~month.ok THEN PErr(month.err, month.ts)
                 ELSE Let(expect_token(text, month.ts, Slash, ExpectedSlash), LAMBDA s2 :
                          IF ~s2.ok THEN PErr(s2.err, s2.ts)
                          ELSE Let(expect_number(text, s2.ts), LAMBDA day :
                                   IF ~day.ok THEN PErr(day.err, day.ts)
                                   ELSE parse_date_end(text, day.ts, year, month.n, day.n)))))

\* the "am" arm of parse_number, entered with the number first_num consumed
\* an am arm that keeps 12 as the hour: what parse_number's am arm is not
parse_am_noon(text, ts, first_num) ==
    Let(next(text, ts), LAMBDA t :
        IF InRange(first_num, 1, 12) THEN POk(ExprTime(as_u8(first_num), 0), t.ts)
        ELSE PErr(InvalidTimeText(first_num, "am"), t.ts))

parse_am(text, ts, first_num) ==
    Let(next(text, ts), LAMBDA t :
        IF InRange(first_num, 1, 11) THEN POk(ExprTime(as_u8(first_num), 0), t.ts)
        ELSE IF InRange(first_num, 12, 12) THEN POk(ExprTime(0, 0), t.ts)
        ELSE PErr(InvalidTimeText(first_num, "am"), t.ts))

\* the "pm" arm of parse_number
parse_pm(text, ts, first_num) ==
    Let(next(text, ts), LAMBDA t :
        IF InRange(first_num, 1, 11)
        THEN POk(ExprTime(as_u8(BigAdd(first_num, BigOfInt(HOURS_IN_HALF_DAY))), 0), t.ts)
        ELSE IF InRange(first_num, 12, 12) THEN POk(ExprTime(12, 0), t.ts)
        ELSE PErr(InvalidTimeText(first_num, "pm"), t.ts))

\* the match of parse_number on the token after the number first_num
parse_number_match(text, p, first_num) ==
    IF ~p.some THEN PErr(UnexpectedEof, p.ts)
    ELSE CASE p.tok.type = "Slash" -> parse_date(text, p.ts, first_num)
           [] p.tok.type = "Colon" -> parse_time(text, p.ts, first_num)
           [] p.tok.type = "Ident" /\ p.tok.text = "am" -> parse_am(text, p.ts, first_num)
           [] p.tok.type = "Ident" /\ p.tok.text = "pm" -> parse_pm(text, p.ts, first_num)
           [] p.tok.type = "Ident" /\ p.tok.text \notin {"am", "pm"} ->
                parse_duration(text, p.ts, first_num)
           [] OTHER -> PErr(UnexpectedToken(p.tok), p.ts)

parse_number(text, ts) ==
    Let(expect_number(text, ts), LAMBDA first_num :
        IF ~first_num.ok THEN PErr(first_num.err, first_num.ts)
        ELSE Let(peek(text, first_num.ts), LAMBDA p :
                 parse_number_match(text, p, first_num.n)))

parse_ident(text, ts) ==
    Let(next(text, ts), LAMBDA t :
        IF t.some /\ t.tok.type = "Ident"
        THEN CASE t.tok.text = "today" -> POk(ExprKeyword("Today"), t.ts)
               [] t.tok.text = "tomorrow" -> POk(ExprKeyword("Tomorrow"), t.ts)
               [] t.tok.text = "yesterday" -> POk(ExprKeyword("Yesterday"), t.ts)
               [] t.tok.text = "now" -> POk(ExprKeyword("Now"), t.ts)
               [] OTHER -> PErr(UnknownKeyword(t.tok.text), t.ts)
        ELSE PErr(ExpectedIdent, t.ts))

parse_primary(text, ts) ==
    Let(peek(text, ts), LAMBDA p :
        IF ~p.some THEN PErr(UnexpectedEof, p.ts)
        ELSE CASE p.tok.type = "Number" -> parse_number(text, p.ts)
               [] p.tok.type = "Ident" -> parse_ident(text, p.ts)
               [] OTHER -> PErr(UnexpectedToken(p.tok), p.ts))

\* the body of parse_expr's while loop, entered with Plus or Minus peeked
RECURSIVE parse_expr_loop(_, _, _)
\* a loop body that nests to the right: what parse_expr's loop is not
parse_expr_step_right(text, ts, left) ==
    Let(next(text, ts), LAMBDA t :
        Let(parse_primary(text, t.ts), LAMBDA right :
            IF ~right.ok THEN right
            ELSE Let(parse_expr_loop(text, right.ts, right.expr), LAMBDA rest :
                     IF ~rest.ok THEN rest
                     ELSE POk(ExprBinOp(left, IF t.tok.type = "Plus" THEN "Add" ELSE "Sub",
                                        rest.expr), rest.ts))))

parse_expr_step(text, ts, left) ==
    Let(next(text, ts), LAMBDA t :
        Let(parse_primary(text, t.ts), LAMBDA right :
            IF ~right.ok THEN right
            ELSE parse_expr_loop(text, right.ts,
                                 ExprBinOp(left, IF t.tok.type = "Plus" THEN "Add" ELSE "Sub",
                                           right.expr))))

\* the while loop of parse_expr, entered with the expression so far
parse_expr_loop(text, ts, left) ==
    Let(peek(text, ts), LAMBDA p :
        IF p.some /\ p.tok.type \in {"Plus", "Minus"}
        THEN parse_expr_step(text, p.ts, left)
        ELSE POk(left, p.ts))

parse_expr(text, ts) ==
    Let(parse_primary(text, ts), LAMBDA left :
        IF ~left.ok THEN left
        ELSE parse_expr_loop(text, left.ts, left.expr))

\* parse(lexer), for a lexer whose cursor is cur
parse(text, cur) == parse_expr(text, Peekable(cur))

(***************************************************************************)
(* The time crate's types, as core/src/evaluator.rs uses them.             *)
(***************************************************************************)
\* an i64: sign and magnitude, zero never negative
SInt(neg, mag) == [neg |-> neg /\ mag # BigZero, mag |-> mag]

Two63 == <<0, 0, 0, 32768, 0>>
Two64 == <<0, 0, 0, 0, 1>>

FitsI64(x) == IF x.neg THEN BigLeq(x.mag, Two63) ELSE BigLeq(x.mag, I64Max)

\* i64::checked_add and i64::checked_sub, before the range check
SAdd(x, y) ==
    IF x.neg = y.neg THEN SInt(x.neg, BigAdd(x.mag, y.mag))
    ELSE IF BigLeq(y.mag, x.mag) THEN SInt(x.neg, BigSub(x.mag, y.mag))
    ELSE SInt(y.neg, BigSub(y.mag, x.mag))

SNeg(x) == SInt(~x.neg, x.mag)

SSub(x, y) == SAdd(x, SNeg(y))

\* an integer of TLC as an i64
SOfInt(n) == IF n < 0 THEN SInt(TRUE, BigOfInt(-n)) ELSE SInt(FALSE, BigOfInt(n))

\* a % m and a / m of Rust (truncating), for an i64 a and 0 < m < 2^15
SRem(x, m) == IF x.neg THEN -BigModSmall(x.mag, m) ELSE BigModSmall(x.mag, m)

\* time::util::is_leap_year
is_leap_year(y) == y % 4 = 0 /\ (y % 100 # 0 \/ y % 400 = 0)

\* time::util::days_in_month
days_in_month(y, m) ==
    CASE m \in {1, 3, 5, 7, 8, 10, 12} -> 31
      [] m \in {4, 6, 9, 11} -> 30
      [] OTHER -> IF is_leap_year(y) THEN 29 ELSE 28

\* Date: a calendar date of the years -9999..=9999
MIN_YEAR == -9999
MAX_YEAR == 9999

Date(y, m, d) == [year |-> y, month |-> m, day |-> d]

\* Date::to_julian_day
to_julian_day(date) ==
    LET y == IF date.month <= 2 THEN date.year - 1 ELSE date.year
        era == y \div 400
        yoe == y - era * 400
        mp == IF date.month > 2 THEN date.month - 3 ELSE date.month + 9
        doy == (153 * mp + 2) \div 5 + date.day - 1
        doe == yoe * 365 + yoe \div 4 - yoe \div 100 + doy
    IN  era * 146097 + doe - 719468 + 2440588

\* Date::from_julian_day, for a day in range
from_julian_day(jd) ==
    LET z == jd - 2440588 + 719468
        era == z \div 146097
        doe == z - era * 146097
        yoe == (doe - doe \div 1460 + doe \div 36524 - doe \div 146096) \div 365
        doy == doe - (365 * yoe + yoe \div 4 - yoe \div 100)
        mp == (5 * doy + 2) \div 153
        d == doy - (153 * mp + 2) \div 5 + 1
        m == IF mp < 10 THEN mp + 3 ELSE mp - 9
        y == yoe + era * 400
    IN  Date(IF m <= 2 THEN y + 1 ELSE y, m, d)

MinJulianDay == to_julian_day(Date(MIN_YEAR, 1, 1))
MaxJulianDay == to_julian_day(Date(MAX_YEAR, 12, 31))

\* Date::from_calendar_date, for a month of 1..12
from_calendar_date(y, m, d) ==
    IF y \in MIN_YEAR..MAX_YEAR /\ d \in 1..days_in_month(y, m)
    THEN [ok |-> TRUE, date |-> Date(y, m, d)]
    ELSE [ok |-> FALSE, date |-> Date(0, 1, 1)]

\* Time
Time(h, m, s, ns) == [hour |-> h, minute |-> m, second |-> s, nanosecond |-> ns]

\* Time::from_hms
from_hms(h, m, s) ==
    IF h \in 0..23 /\ m \in 0..59 /\ s \in 0..59
    THEN [ok |-> TRUE, time |-> Time(h, m, s, 0)]
    ELSE [ok |-> FALSE, time |-> Time(0, 0, 0, 0)]

\* Duration::whole_days, whole_hours, whole_minutes of a Duration of secs seconds
\* whole days rounded up: what Duration::whole_days is not
whole_days_up(secs) ==
    SInt(secs.neg, BigDivSmall(BigDivSmall(BigAdd(secs.mag, BigOfInt(86399)), 3600), 24))

whole_days(secs) == SInt(secs.neg, BigDivSmall(BigDivSmall(secs.mag, 3600), 24))
whole_hours(secs) == SInt(secs.neg, BigDivSmall(secs.mag, 3600))
whole_minutes(secs) == SInt(secs.neg, BigDivSmall(secs.mag, 60))

\* Date::checked_add and Date::checked_sub of `days` whole days (an i64);
\* a count outside i32, a Julian day outside i32 and a day outside
\* Date::MIN..=Date::MAX are all None
date_checked_shift(date, days) ==
    LET jd == to_julian_day(date)
    IN  IF BigLess(I32Max, days.mag) THEN [some |-> FALSE, date |-> date]
        ELSE LET n == IF days.neg THEN -BigToInt(days.mag) ELSE BigToInt(days.mag)
             IN  IF n > MaxJulianDay - jd \/ n < MinJulianDay - jd
                 THEN [some |-> FALSE, date |-> date]
                 ELSE [some |-> TRUE, date |-> from_julian_day(jd + n)]

date_checked_add(date, secs) == date_checked_shift(date, whole_days(secs))
date_checked_sub(date, secs) == date_checked_shift(date, SNeg(whole_days(secs)))

\* the cascade! of Time::adjusting_add / adjusting_sub over seconds, minutes
\* and hours (every Duration of this program has no sub-second part)
time_cascade(time, ds, dm, dh) ==
    LET s0 == time.second + ds
        c1 == IF s0 >= 60 THEN 1 ELSE IF s0 < 0 THEN -1 ELSE 0
        m0 == time.minute + dm + c1
        c2 == IF m0 >= 60 THEN 1 ELSE IF m0 < 0 THEN -1 ELSE 0
        h0 == time.hour + dh + c2
        c3 == IF h0 >= 24 THEN 1 ELSE IF h0 < 0 THEN -1 ELSE 0
    IN  [adjust |-> c3,
         time |-> Time(h0 - 24 * c3, m0 - 60 * c2, s0 - 60 * c1, time.nanosecond)]

\* Time::adjusting_add
adjusting_add(time, secs) ==
    time_cascade(time, SRem(secs, 60), SRem(whole_minutes(secs), 60),
                 SRem(whole_hours(secs), 24))

\* Time::adjusting_sub
adjusting_sub(time, secs) ==
    time_cascade(time, -SRem(secs, 60), -SRem(whole_minutes(secs), 60),
                 -SRem(whole_hours(secs), 24))

\* OffsetDateTime::checked_add / checked_sub, given the date and the time
\* adjustment already computed
datetime_adjust(d, t) ==
    IF ~d.some THEN [some |-> FALSE, date |-> d.date, time |-> t.time]
    ELSE LET a == date_checked_shift(d.date, SOfInt(t.adjust))
         IN  [some |-> a.some, date |-> a.date, time |-> t.time]

datetime_checked_add(dt, secs) ==
    datetime_adjust(date_checked_add(dt.date, secs), adjusting_add(dt.time, secs))

datetime_checked_sub(dt, secs) ==
    datetime_adjust(date_checked_sub(dt.date, secs), adjusting_sub(dt.time, secs))

(***************************************************************************)
(* core/src/evaluator.rs                                                   *)
(***************************************************************************)
DAYS_PER_MONTH_APPROX == 30
DAYS_PER_YEAR_APPROX == 365

\* Value
ValueDate(d) == [kind |-> "Date", date |-> d]
ValueDateTime(d, t) == [kind |-> "DateTime", date |-> d, time |-> t, offset |-> 0]
ValueDuration(secs) == [kind |-> "Duration", secs |-> secs]
ValueTime(t) == [kind |-> "Time", time |-> t]
NoValue == [kind |-> "None"]

\* EvalError
InvalidDate(y, m, d) == [err |-> "InvalidDate", year |-> y, month |-> m, day |-> d]
InvalidMonth(m) == [err |-> "InvalidMonth", month |-> m]
InvalidTime(h, m, s) == [err |-> "InvalidTime", hour |-> h, minute |-> m, second |-> s]
InvalidOp(op, l, r) == [err |-> "InvalidOp", op |-> op, left |-> l, right |-> r]
NoEvalError == [err |-> "None"]

\* Result<Value, EvalError>, or the panic that unwinds out of the call
Ok(v) == [status |-> "Ok", value |-> v, err |-> NoEvalError]
Err(e) == [status |-> "Err", value |-> NoValue, err |-> e]
Panic == [status |-> "Panic", value |-> NoValue, err |-> NoEvalError]
Pending == [status |-> "Pending", value |-> NoValue, err |-> NoEvalError]

\* Month::try_from(u8)
month_try_from(month) == month \in 1..12

\* u32 -> i32 by try_into: the value, when it is below 2^31
u32_try_into_i32(year) ==
    IF year[2] < 32768 THEN [ok |-> TRUE, n |-> year[1] + year[2] * Base]
    ELSE [ok |-> FALSE, n |-> 0]

\* `year as i32` of a u32: two's complement
u32_as_i32(year) ==
    IF year[2] < 32768 THEN year[1] + year[2] * Base
    ELSE year[1] + (year[2] - Base) * Base

\* Value::from_date
from_date(year, month, day) ==
    IF ~month_try_from(month) THEN Err(InvalidMonth(month))
    ELSE LET y == u32_try_into_i32(year)
         IN  IF ~y.ok THEN Err(InvalidDate(year, month, day))
             ELSE LET date == from_calendar_date(y.n, month, day)
                  IN  IF ~date.ok THEN Err(InvalidDate(year, month, day))
                      ELSE Ok(ValueDate(date.date))

\* Value::from_time
from_time(hour, minute, second) ==
    LET time == from_hms(hour, minute, second)
    IN  IF ~time.ok THEN Err(InvalidTime(hour, minute, second))
        ELSE Ok(ValueTime(time.time))

\* `value * c` on i64 for value >= 0 and 0 < c < 2^15: with overflow checks
\* the overflow panics, without them the product wraps
mul_i64(value, c, overflow_checks) ==
    LET p == BigMulSmall(value, c)
        low == BigWrap64(p)
    IN  IF BigLeq(p, I64Max) THEN [panic |-> FALSE, n |-> SInt(FALSE, p)]
        ELSE IF overflow_checks THEN [panic |-> TRUE, n |-> SInt(FALSE, BigZero)]
        ELSE IF low[4] >= 32768
             THEN [panic |-> FALSE, n |-> SInt(TRUE, BigSub(Two64, low))]
             ELSE [panic |-> FALSE, n |-> SInt(FALSE, low)]

\* Duration::seconds(n.checked_mul(per).expect(..)), per = a * b seconds
duration_of(n, a, b) ==
    LET secs == SInt(n.neg, BigMulSmall(BigMulSmall(n.mag, a), b))
    IN  IF FitsI64(secs) THEN Ok(ValueDuration(secs)) ELSE Panic

\* Duration::days, Duration::hours, Duration::minutes, Duration::seconds
duration_days(n) == duration_of(n, 3600, 24)
duration_hours(n) == duration_of(n, 3600, 1)
duration_minutes(n) == duration_of(n, 60, 1)
duration_seconds(n) == duration_of(n, 1, 1)

\* Value::from_duration
from_duration(value, unit, overflow_checks) ==
    CASE unit = "Years" ->
           LET p == mul_i64(value, DAYS_PER_YEAR_APPROX, overflow_checks)
           IN  IF p.panic THEN Panic ELSE duration_days(p.n)
      [] unit = "Months" ->
           LET p == mul_i64(value, DAYS_PER_MONTH_APPROX, overflow_checks)
           IN  IF p.panic THEN Panic ELSE duration_days(p.n)
      [] unit = "Days" -> duration_days(SInt(FALSE, value))
      [] unit = "Hours" -> duration_hours(SInt(FALSE, value))
      [] unit = "Minutes" -> duration_minutes(SInt(FALSE, value))
      [] unit = "Seconds" -> duration_seconds(SInt(FALSE, value))

\* the Duration::days(1) of Value::from_keyword
OneDay == SInt(FALSE, BigOfInt(86400))

\* Value::from_keyword, given the instant OffsetDateTime::now_utc returned
from_keyword(keyword, now) ==
    CASE keyword = "Now" -> Ok(ValueDateTime(now.date, now.time))
      [] keyword = "Today" -> Ok(ValueDate(now.date))
      [] keyword = "Tomorrow" ->
           LET d == date_checked_add(now.date, OneDay)
           IN  IF d.some THEN Ok(ValueDate(d.date)) ELSE Panic
      [] keyword = "Yesterday" ->
           LET d == date_checked_sub(now.date, OneDay)
           IN  IF d.some THEN Ok(ValueDate(d.date)) ELSE Panic

\* Value::from_datetime
from_datetime(year, month, day, hour, minute) ==
    IF ~month_try_from(month) THEN Err(InvalidMonth(month))
    ELSE LET date == from_calendar_date(u32_as_i32(year), month, day)
         IN  IF ~date.ok THEN Err(InvalidDate(year, month, day))
             ELSE LET time == from_hms(hour, minute, 0)
                  IN  IF ~time.ok THEN Err(InvalidTime(hour, minute, 0))
                      ELSE Ok(ValueDateTime(date.date, time.time))

\* Date + Duration, Date - Duration: checked_add(..).expect(..)
date_plus(date, secs) ==
    LET d == date_checked_add(date, secs)
    IN  IF d.some THEN Ok(ValueDate(d.date)) ELSE Panic

date_minus(date, secs) ==
    LET d == date_checked_sub(date, secs)
    IN  IF d.some THEN Ok(ValueDate(d.date)) ELSE Panic

\* OffsetDateTime + Duration, OffsetDateTime - Duration
datetime_plus(dt, secs) ==
    LET r == datetime_checked_add(dt, secs)
    IN  IF r.some THEN Ok(ValueDateTime(r.date, r.time)) ELSE Panic

datetime_minus(dt, secs) ==
    LET r == datetime_checked_sub(dt, secs)
    IN  IF r.some THEN Ok(ValueDateTime(r.date, r.time)) ELSE Panic

\* Duration + Duration, Duration - Duration: checked, an overflow panics
duration_plus(a, b) ==
    LET secs == SAdd(a, b)
    IN  IF FitsI64(secs) THEN Ok(ValueDuration(secs)) ELSE Panic

duration_minus(a, b) ==
    LET secs == SSub(a, b)
    IN  IF FitsI64(secs) THEN Ok(ValueDuration(secs)) ELSE Panic

\* Date - Date: the days between, as a Duration
date_diff(a, b) == duration_days(SOfInt(to_julian_day(a) - to_julian_day(b)))

\* Value::add
\* an addition that takes its operands in either order: what Value::add is not
add_commutative(self, other) ==
    CASE self.kind = "Date" /\ other.kind = "Duration" -> date_plus(self.date, other.secs)
      [] self.kind = "Duration" /\ other.kind = "Date" -> date_plus(other.date, self.secs)
      [] self.kind = "DateTime" /\ other.kind = "Duration" -> datetime_plus(self, other.secs)
      [] self.kind = "Duration" /\ other.kind = "DateTime" -> datetime_plus(other, self.secs)
      [] self.kind = "Time" /\ other.kind = "Duration" ->
           Ok(ValueTime(adjusting_add(self.time, other.secs).time))
      [] self.kind = "Duration" /\ other.kind = "Time" ->
           Ok(ValueTime(adjusting_add(other.time, self.secs).time))
      [] self.kind = "Duration" /\ other.kind = "Duration" ->
           duration_plus(self.secs, other.secs)
      [] OTHER -> Err(InvalidOp("Add", self, other))

add(self, other) ==
    CASE self.kind = "Date" /\ other.kind = "Duration" -> date_plus(self.date, other.secs)
      [] self.kind = "DateTime" /\ other.kind = "Duration" -> datetime_plus(self, other.secs)
      [] self.kind = "Time" /\ other.kind = "Duration" ->
           Ok(ValueTime(adjusting_add(self.time, other.secs).time))
      [] self.kind = "Duration" /\ other.kind = "Duration" ->
           duration_plus(self.secs, other.secs)
      [] OTHER -> Err(InvalidOp("Add", self, other))

\* Value::sub
sub(self, other) ==
    CASE self.kind = "Date" /\ other.kind = "Duration" -> date_minus(self.date, other.secs)
      [] self.kind = "DateTime" /\ other.kind = "Duration" -> datetime_minus(self, other.secs)
      [] self.kind = "Time" /\ other.kind = "Duration" ->
           Ok(ValueTime(adjusting_sub(self.time, other.secs).time))
      [] self.kind = "Duration" /\ other.kind = "Duration" ->
           duration_minus(self.secs, other.secs)
      [] self.kind = "Date" /\ other.kind = "Date" -> date_diff(self.date, other.date)
      [] OTHER -> Err(InvalidOp("Sub", self, other))

\* Value::type_name
type_name(v) == v.kind

\* the leaf arms of eval: an Expr that is no BinOp and no Keyword
eval_literal(expr, overflow_checks) ==
    CASE expr.kind = "Time" -> from_time(expr.hour, expr.minute, 0)
      [] expr.kind = "Date" -> from_date(expr.year, expr.month, expr.day)
      [] expr.kind = "Duration" -> from_duration(expr.value, expr.unit, overflow_checks)
      [] expr.kind = "DateTime" ->
           from_datetime(expr.year, expr.month, expr.day, expr.hour, expr.minute)

\* the `match op` of eval's BinOp arm
eval_binop(left, op, right) ==
    IF op = "Add" THEN add(left, right) ELSE sub(left, right)

(***************************************************************************)
(* Display, core/src/evaluator.rs                                          *)
(***************************************************************************)
\* the decimal digits of n >= 0
RECURSIVE dec(_)
dec(n) == IF n < 10 THEN Digits[n + 1] ELSE dec(n \div 10) \o Digits[(n % 10) + 1]

RECURSIVE zeros(_)
zeros(k) == IF k <= 0 THEN "" ELSE "0" \o zeros(k - 1)

\* "{:0w}" of an integer: zero padded to w characters, the sign among them
fmt_pad(n, w) ==
    IF n < 0 THEN "-" \o zeros(w - 1 - Len(dec(-n))) \o dec(-n)
    ELSE zeros(w - Len(dec(n))) \o dec(n)

\* the decimal digits of a five-limb magnitude
RECURSIVE big_dec(_)
big_dec(a) ==
    IF InRange(a, 0, 9) THEN Digits[BigToInt(a) + 1]
    ELSE big_dec(BigDivSmall(a, 10)) \o Digits[BigModSmall(a, 10) + 1]

\* write_date
write_date(date) ==
    fmt_pad(date.year, 4) \o "-" \o fmt_pad(date.month, 2) \o "-" \o fmt_pad(date.day, 2)

\* the loop of write_time: "{:09}" of the nanoseconds, then every trailing
\* '0' popped; ns is the number left and w its width
RECURSIVE subseconds(_, _)
subseconds(ns, w) ==
    IF w > 0 /\ ns % 10 = 0 THEN subseconds(ns \div 10, w - 1)
    ELSE IF w = 0 THEN "" ELSE fmt_pad(ns, w)

\* a seconds field tied to the second alone: what write_time is not
write_time_by_second(time) ==
    fmt_pad(time.hour, 2) \o ":" \o fmt_pad(time.minute, 2) \o
    (IF time.second # 0
     THEN ":" \o fmt_pad(time.second, 2) \o
          (IF time.nanosecond # 0 THEN "." \o subseconds(time.nanosecond, 9) ELSE "")
     ELSE "")

\* write_time
write_time(time) ==
    fmt_pad(time.hour, 2) \o ":" \o fmt_pad(time.minute, 2) \o
    (IF time.second # 0 \/ time.nanosecond # 0
     THEN ":" \o fmt_pad(time.second, 2) \o
          (IF time.nanosecond # 0 THEN "." \o subseconds(time.nanosecond, 9) ELSE "")
     ELSE "")

\* format_offset
format_offset(offset) ==
    LET total_seconds == IF offset >= 0 THEN offset ELSE -offset
        hours == total_seconds \div 3600
        minutes == (total_seconds % 3600) \div 60
        seconds == total_seconds % 60
    IN  (IF offset >= 0 THEN "+" ELSE "-") \o fmt_pad(hours, 2) \o ":" \o fmt_pad(minutes, 2) \o
        (IF seconds = 0 THEN "" ELSE ":" \o fmt_pad(seconds, 2))

\* write_datetime
write_datetime(dt) ==
    write_date(dt.date) \o " " \o write_time(dt.time) \o
    (IF dt.offset # 0 THEN " " \o format_offset(dt.offset) ELSE " +00:00")

\* Display of time::Duration: the non-zero components, largest first
duration_fmt(secs) ==
    LET item(a, name) == IF a = BigZero THEN "" ELSE big_dec(a) \o name
        small(n, name) == IF n = 0 THEN "" ELSE dec(n) \o name
    IN  IF secs.mag = BigZero THEN "0s"
        ELSE (IF secs.neg THEN "-" ELSE "") \o
             item(whole_days(secs).mag, "d") \o
             small(BigModSmall(whole_hours(secs).mag, 24), "h") \o
             small(BigModSmall(whole_minutes(secs).mag, 60), "m") \o
             small(BigModSmall(secs.mag, 60), "s")

\* Display for Value
value_to_string(v) ==
    CASE v.kind = "Date" -> write_date(v.date)
      [] v.kind = "DateTime" -> write_datetime(v)
      [] v.kind = "Duration" -> duration_fmt(v.secs)
      [] v.kind = "Time" -> write_time(v.time)

(***************************************************************************)
(* Texts.                                                                  *)
(***************************************************************************)
\* the decimal text of n >= 0, as characters
RECURSIVE Text(_)
Text(n) == IF n < 10 THEN <<Digits[n + 1]>> ELSE Text(n \div 10) \o <<Digits[(n % 10) + 1]>>

TextsOf(S) == {Text(n) : n \in S}

I64MaxText == <<"9", "2", "2", "3", "3", "7", "2", "0", "3", "6", "8", "5", "4", "7", "7", "5", "8", "0", "7">>
I64OverText == <<"9", "2", "2", "3", "3", "7", "2", "0", "3", "6", "8", "5", "4", "7", "7", "5", "8", "0", "8">>
TwentyNines == <<"9", "9", "9", "9", "9", "9", "9", "9", "9", "9", "9", "9", "9", "9", "9", "9", "9", "9", "9", "9">>

\* digit runs around the limits of Duration::days, hours and of `* 365`
BigTexts ==
    { <<"1", "0", "6", "7", "5", "1", "9", "9", "1", "1", "6", "7", "3", "0", "0">>,
      <<"1", "0", "6", "7", "5", "1", "9", "9", "1", "1", "6", "7", "3", "0", "1">>,
      <<"2", "5", "6", "2", "0", "4", "7", "7", "8", "8", "0", "1", "5", "2", "1", "5">>,
      <<"2", "5", "6", "2", "0", "4", "7", "7", "8", "8", "0", "1", "5", "2", "1", "6">>,
      <<"2", "5", "2", "6", "9", "5", "1", "2", "4", "2", "9", "7", "3", "8", "3", "9", "6">>,
      <<"2", "5", "2", "6", "9", "5", "1", "2", "4", "2", "9", "7", "3", "8", "3", "9", "7">>,
      <<"5", "0", "5", "3", "9", "0", "2", "4", "8", "5", "9", "4", "7", "6", "7", "9", "4">>,
      <<"9", "2", "2", "3", "3", "7", "2", "0", "3", "6", "8", "5", "4", "7", "7", "5", "8", "0", "7">> }

\* years as written: in range, above 9999, and past 2^31 and 2^32
YearTexts ==
    TextsOf({0, 1, 2024, 2025, 9999, 10000}) \cup
    { <<"2", "1", "4", "7", "4", "8", "3", "6", "4", "8">>,
      <<"4", "2", "9", "4", "9", "6", "7", "2", "9", "5">>,
      <<"4", "2", "9", "4", "9", "6", "9", "3", "2", "1">> }

MonthTexts == TextsOf({0, 1, 2, 12, 13, 257, 258}) \cup {<<"0", "9">>}

DayTexts == TextsOf({0, 1, 28, 29, 30, 31, 32, 285})

HourTexts == TextsOf({0, 14, 23, 24, 256, 270, 280})

MinuteTexts == TextsOf({0, 30, 59, 60, 256, 316})

Space == <<" ">>
SlashText == <<"/">>
ColonText == <<":">>

KeywordTexts ==
    { <<"t", "o", "d", "a", "y">>,
      <<"t", "o", "m", "o", "r", "r", "o", "w">>,
      <<"y", "e", "s", "t", "e", "r", "d", "a", "y">>,
      <<"n", "o", "w">> }

UnitTexts ==
    { <<"y", "e", "a", "r", "s">>,
      <<"y", "e", "a", "r">>,
      <<"y">>,
      <<"m", "o", "n", "t", "h", "s">>,
      <<"m", "o", "n", "t", "h">>,
      <<"d", "a", "y", "s">>,
      <<"d", "a", "y">>,
      <<"d">>,
      <<"h", "o", "u", "r", "s">>,
      <<"h", "o", "u", "r">>,
      <<"h">>,
      <<"m", "i", "n", "u", "t", "e", "s">>,
      <<"m", "i", "n", "u", "t", "e">>,
      <<"m">>,
      <<"s", "e", "c", "o", "n", "d", "s">>,
      <<"s", "e", "c", "o", "n", "d">>,
      <<"s">> }

\* date literals  Y/M/D
DateTexts ==
    {y \o SlashText \o m \o SlashText \o d :
        y \in YearTexts, m \in MonthTexts, d \in DayTexts}

\* time literals  H:M
TimeTexts == {h \o ColonText \o m : h \in HourTexts, m \in MinuteTexts}

\* datetime literals  Y/M/D H:M
DateTimeTexts ==
    {y \o SlashText \o m \o SlashText \o d \o Space \o t :
        y \in TextsOf({0, 2024, 2025, 9999, 10000}) \cup
              { <<"2", "1", "4", "7", "4", "8", "3", "6", "4", "8">>,
                <<"4", "2", "9", "4", "9", "6", "7", "2", "9", "5">>,
                <<"4", "2", "9", "4", "9", "6", "9", "3", "2", "1">> },
        m \in TextsOf({1, 2, 13, 258}),
        d \in TextsOf({1, 29, 30, 285}),
        t \in {<<"1", "4", ":", "3", "0">>, <<"2", "4", ":", "0", "0">>,
               <<"0", ":", "6", "0">>, <<"2", "5", "6", ":", "2", "5", "6">>}}

\* N am, N pm
AmPmTexts ==
    {n \o sp \o x :
        n \in TextsOf({0, 1, 2, 11, 12, 13, 34, 255, 256, 257, 268}) \cup {I64MaxText},
        sp \in {<<>>, Space},
        x \in {<<"a", "m">>, <<"p", "m">>}}

\* duration literals  N unit
DurationTexts ==
    {n \o u : n \in TextsOf({0, 1, 2, 12, 24, 36, 90}) \cup BigTexts, u \in UnitTexts}

\* texts that are no expression, or an expression and more
OddTexts ==
    { <<>>,
      <<"@">>,
      <<"+">>,
      <<" ">>,
      <<"\t">>,
      <<"5">>,
      <<"5", " ">>,
      <<"2", "0", "2", "5", "/">>,
      <<"2", "0", "2", "5", "/", "0", "9">>,
      <<"2", "0", "2", "5", "/", "0", "9", "/">>,
      <<"2", "0", "2", "5", "-", "0", "9", "-", "2", "7">>,
      <<"1", "4", ":">>,
      <<"1", "4", ":", "x">>,
      <<"5", "x">>,
      <<"5", " ", "D", "a", "y", "s">>,
      <<"T", "o", "d", "a", "y">>,
      <<"n", "o", "o", "n">>,
      <<"t", "o", "d", "a", "y", " ", "+">>,
      <<"t", "o", "d", "a", "y", " ", "+", " ", "@">>,
      <<"t", "o", "d", "a", "y", " ", "t", "o", "d", "a", "y">>,
      <<"t", "o", "d", "a", "y", " ", "@">>,
      <<"t", "o", "d", "a", "y", " ", "5">>,
      <<"t", "o", "d", "a", "y", " ", ":">>,
      <<"2", "h", " ", "5">>,
      <<"2", "h", " ", "3", "0", "m">>,
      <<"2", "0", "2", "5", "/", "0", "9", "/", "2", "7", " ", "2", "p", "m">>,
      <<"2", "0", "2", "5", "/", "0", "9", "/", "2", "7", " ", "1", "4">>,
      <<"2", "0", "2", "5", "/", "0", "9", "/", "2", "7", " ", "1", "4", ":", "3", "0", " ", "5">>,
      <<"2", "0", "2", "5", "/", "0", "9", "/", "2", "7", " ", "t", "o", "d", "a", "y">>,
      <<"1", "4", ":", "3", "0", ":", "1", "5">>,
      <<"9", "9", "9", "9", "9", "9", "9", "9", "9", "9", "9", "9", "9", "9", "9", "9", "9", "9", "9", "9">>,
      <<"t", "o", "d", "a", "y", " ", "9", "9", "9", "9", "9", "9", "9", "9", "9", "9", "9", "9", "9", "9", "9", "9", "9", "9", "9", "9">>,
      <<"t", "o", "d", "a", "y", " ", "+", " ", "9", "9", "9", "9", "9", "9", "9", "9", "9", "9", "9", "9", "9", "9", "9", "9", "9", "9", "9", "9">>,
      <<"2", "0", "2", "5", "/", "9", "9", "9", "9", "9", "9", "9", "9", "9", "9", "9", "9", "9", "9", "9", "9", "9", "9", "9", "9", "/", "2", "7">>,
      <<"2", "0", "2", "5", "/", "0", "9", "/", "2", "7", " ", "9", "9", "9", "9", "9", "9", "9", "9", "9", "9", "9", "9", "9", "9", "9", "9", "9", "9", "9", "9">>,
      <<"1", "4", ":", "9", "9", "9", "9", "9", "9", "9", "9", "9", "9", "9", "9", "9", "9", "9", "9", "9", "9", "9", "9">>,
      <<"9", "9", "9", "9", "9", "9", "9", "9", "9", "9", "9", "9", "9", "9", "9", "9", "9", "9", "9", "9", " ", "+", " ", "t", "o", "d", "a", "y">>,
      <<"2", "h", " ", "+", " ", "9", "9", "9", "9", "9", "9", "9", "9", "9", "9", "9", "9", "9", "9", "9", "9", "9", "9", "9", "9", "h">>,
      <<"9", "2", "2", "3", "3", "7", "2", "0", "3", "6", "8", "5", "4", "7", "7", "5", "8", "0", "8">>,
      <<"9", "2", "2", "3", "3", "7", "2", "0", "3", "6", "8", "5", "4", "7", "7", "5", "8", "0", "8", "d">>,
      <<" ", "\t", "t", "o", "d", "a", "y">>,
      <<"t", "o", "d", "a", "y", "\t">>,
      <<"t", "o", "d", "a", "y", "\n">>,
      <<"t", "o", "d", "a", "y", " ", "\n", "+", " ", "2", "h">> }

\* the primaries chains are built of: a Date, a DateTime, a Duration, a Time
ChainPrimaries ==
    { <<"t", "o", "d", "a", "y">>,
      <<"n", "o", "w">>,
      <<"3", "6", "h">>,
      <<"1", "4", ":", "3", "0">> }

OpTexts == {<<" ", "+", " ">>, <<" ", "-", " ">>}

\* p0 op p1 ... op pn for n <= k
RECURSIVE Chains(_)
Chains(k) ==
    IF k = 0 THEN ChainPrimaries
    ELSE LET shorter == Chains(k - 1)
         IN  shorter \cup {c \o op \o p : c \in shorter, op \in OpTexts, p \in ChainPrimaries}

\* arithmetic at the edges of the calendar, of the day and of Duration
ArithTexts ==
    {l \o op \o r :
        l \in { <<"9", "9", "9", "9", "/", "1", "2", "/", "3", "1">>,
               <<"0", "/", "0", "1", "/", "0", "1">>,
               <<"2", "0", "2", "4", "/", "0", "2", "/", "2", "8">>,
               <<"2", "0", "2", "5", "/", "0", "9", "/", "2", "7">>,
               <<"9", "9", "9", "9", "/", "1", "2", "/", "3", "1", " ", "2", "3", ":", "5", "9">>,
               <<"2", "0", "2", "5", "/", "0", "9", "/", "2", "7", " ", "2", "3", ":", "3", "0">>,
               <<"0", "/", "0", "1", "/", "0", "1", " ", "0", ":", "0", "0">>,
               <<"2", "a", "m">>,
               <<"2", "3", ":", "5", "9">>,
               <<"0", ":", "0", "0">>,
               <<"t", "o", "m", "o", "r", "r", "o", "w">>,
               <<"y", "e", "s", "t", "e", "r", "d", "a", "y">>,
               <<"2", "h">>,
               <<"9", "2", "2", "3", "3", "7", "2", "0", "3", "6", "8", "5", "4", "7", "7", "5", "8", "0", "7", "s">> },
        op \in OpTexts,
        r \in { <<"1", "d">>,
               <<"2", "d">>,
               <<"7", "d">>,
               <<"1", "2", "h">>,
               <<"3", "6", "h">>,
               <<"4", "5", "m">>,
               <<"9", "0", "s">>,
               <<"8", "6", "3", "9", "9", "s">>,
               <<"1", "y">>,
               <<"1", " ", "m", "o", "n", "t", "h">>,
               <<"2", "1", "4", "7", "4", "8", "3", "6", "4", "7", "d">>,
               <<"2", "1", "4", "7", "4", "8", "3", "6", "4", "8", "d">>,
               <<"9", "2", "2", "3", "3", "7", "2", "0", "3", "6", "8", "5", "4", "7", "7", "5", "8", "0", "7", "s">>,
               <<"1", "0", "6", "7", "5", "1", "9", "9", "1", "1", "6", "7", "3", "0", "1", "d">>,
               <<"2", "0", "2", "4", "/", "0", "2", "/", "2", "8">>,
               <<"t", "o", "d", "a", "y">> }}

(***************************************************************************)
(* The wall clock: the instants OffsetDateTime::now_utc can return, in     *)
(* order.  The clock is at one of them and only moves forward.             *)
(***************************************************************************)
ClockInstants ==
    << [date |-> Date(2025, 9, 27), time |-> Time(23, 59, 59, 120000000)],
       [date |-> Date(2025, 9, 28), time |-> Time(0, 0, 0, 0)],
       [date |-> Date(2025, 9, 28), time |-> Time(0, 0, 0, 5000000)],
       [date |-> Date(2025, 9, 28), time |-> Time(8, 15, 30, 0)] >>

\* OffsetDateTime::now_utc
now_utc(c) == ClockInstants[c]

(***************************************************************************)
(* A Lexer driven directly, as the lexer's tests drive it.                 *)
(***************************************************************************)
NoToken == Token("None", BigZero, "")

\* Lexer::new
LexerNew ==
    [cursor |-> 0, calls |-> 0, last |-> NoToken, yielded |-> "nothing",
     prev |-> 0, eofs |-> 0]

LexChars == {"+", " ", "\t", "\n", "7", "a", "@"}

RECURSIVE TextsUpTo(_)
TextsUpTo(n) ==
    IF n = 0 THEN {<<>>}
    ELSE LET shorter == TextsUpTo(n - 1)
         IN  shorter \cup {Append(t, c) : t \in {u \in shorter : Len(u) = n - 1}, c \in LexChars}

Idle ==
    /\ pc = "idle"
    /\ ast = PErr(NoError, Peekable(0))
    /\ stack = <<>>
    /\ ret = Pending
    /\ clock = 1
    /\ reads = <<>>
    /\ result = [status |-> "None"]
    /\ checked_build = TRUE

LexInit ==
    /\ input \in TextsUpTo(MaxLen)
    /\ lx = LexerNew
    /\ Idle

\* the Lexer after a call that returned r
LexerAfter(r, yielded) ==
    [cursor |-> r.cur, calls |-> lx.calls + 1, last |-> r.tok, yielded |-> yielded,
     prev |-> lx.cursor, eofs |-> lx.eofs + (IF r.tok.type = "Eof" THEN 1 ELSE 0)]

\* lexer.next_token()
LexNextToken ==
    /\ pc = "idle"
    /\ lx.calls < MaxCalls
    /\ lx' = LexerAfter(next_token(input, lx.cursor), "token")
    /\ UNCHANGED <<input, pc, ast, stack, ret, clock, reads, result, checked_build>>

\* lexer.next(), the Iterator
LexIterNext ==
    /\ pc = "idle"
    /\ lx.calls < MaxCalls
    /\ LET r == iter_next(input, lx.cursor)
       IN  lx' = LexerAfter(r, IF r.some THEN "Some" ELSE "None")
    /\ UNCHANGED <<input, pc, ast, stack, ret, clock, reads, result, checked_build>>

LexNext == LexNextToken \/ LexIterNext

SpecLexer == LexInit /\ [][LexNext]_vars

(***************************************************************************)
(* core/src/lib.rs: run(input), with eval's recursion as a call stack so   *)
(* that the clock can move between two of its readings.                    *)
(***************************************************************************)
\* a date moved by less than a day, by two halves of a day and by a day
DayShiftTexts ==
    { <<"t", "o", "d", "a", "y", " ", "+", " ", "2", "h">>,
      <<"t", "o", "d", "a", "y", " ", "-", " ", "2", "h">>,
      <<"t", "o", "d", "a", "y", " ", "+", " ", "1", "2", "h", " ", "+", " ", "1", "2", "h">>,
      <<"t", "o", "d", "a", "y", " ", "+", " ", "2", "4", "h">> }

RunInputs ==
    DateTexts \cup TimeTexts \cup DateTimeTexts \cup AmPmTexts \cup DurationTexts
    \cup KeywordTexts \cup OddTexts \cup Chains(MaxOps) \cup ArithTexts
    \cup DayShiftTexts

\* a call of eval(expr): "start" at entry, "left" while eval(left) runs,
\* "right" while eval(right) runs
Frame(expr) == [expr |-> expr, stage |-> "start", left |-> NoValue]

Top == stack[Len(stack)]
Pop == SubSeq(stack, 1, Len(stack) - 1)

NoResult == [status |-> "None", prefix |-> "", text |-> "", parse_err |-> NoError,
             eval_err |-> NoEvalError]
RunOk(text) == [NoResult EXCEPT !.status = "Ok", !.text = text]
RunParseErr(e) ==
    [NoResult EXCEPT !.status = "Err", !.prefix = "failed to parse expression: ",
                     !.parse_err = e]
\* an evaluation failure under the parse prefix: what run's second map_err is not
RunEvalErrAsParse(e) ==
    [NoResult EXCEPT !.status = "Err", !.prefix = "failed to parse expression: ",
                     !.eval_err = e]

RunEvalErr(e) ==
    [NoResult EXCEPT !.status = "Err", !.prefix = "failed to evaluate expression: ",
                     !.eval_err = e]

Init ==
    /\ input \in RunInputs
    /\ checked_build \in BOOLEAN
    /\ clock \in 1..Len(ClockInstants)
    /\ lx = LexerNew
    /\ pc = "parse"
    /\ ast = PErr(NoError, Peekable(0))
    /\ stack = <<>>
    /\ ret = Pending
    /\ reads = <<>>
    /\ result = NoResult

\* let ast = parse(tokens).map_err(..)?
Parse ==
    /\ pc = "parse"
    /\ ast' = parse(input, 0)
    /\ IF ast'.ok
       THEN /\ pc' = "eval"
            /\ stack' = <<Frame(ast'.expr)>>
            /\ result' = result
       ELSE /\ pc' = "done"
            /\ stack' = stack
            /\ result' = RunParseErr(ast'.err)
    /\ UNCHANGED <<input, lx, ret, clock, reads, checked_build>>

Running == pc = "eval" /\ stack # <<>> /\ ret.status # "Panic"

\* eval, BinOp arm: let left = eval(left)
EvalBinOp ==
    /\ Running
    /\ Top.stage = "start"
    /\ Top.expr.kind = "BinOp"
    /\ stack' = Append([stack EXCEPT ![Len(stack)].stage = "left"], Frame(Top.expr.left))
    /\ UNCHANGED <<input, lx, pc, ast, ret, clock, reads, result, checked_build>>

\* eval, Time / Date / Duration / DateTime arms
EvalLiteral ==
    /\ Running
    /\ Top.stage = "start"
    /\ Top.expr.kind \in {"Time", "Date", "Duration", "DateTime"}
    /\ ret' = eval_literal(Top.expr, checked_build)
    /\ stack' = Pop
    /\ UNCHANGED <<input, lx, pc, ast, clock, reads, result, checked_build>>

\* eval, Keyword arm: Value::from_keyword reads the clock
EvalKeyword ==
    /\ Running
    /\ Top.stage = "start"
    /\ Top.expr.kind = "Keyword"
    /\ reads' = Append(reads, clock)
    /\ ret' = from_keyword(Top.expr.keyword, now_utc(clock))
    /\ stack' = Pop
    /\ UNCHANGED <<input, lx, pc, ast, clock, result, checked_build>>

\* eval(left)? has returned: an error returns from this call too, a value
\* is kept and eval(right) is called
EvalLeftDone ==
    /\ Running
    /\ Top.stage = "left"
    /\ ret.status # "Pending"
    /\ IF ret.status = "Err"
       THEN /\ stack' = Pop
            /\ ret' = ret
       ELSE /\ stack' = Append([stack EXCEPT ![Len(stack)].stage = "right",
                                              ![Len(stack)].left = ret.value],
                               Frame(Top.expr.right))
            /\ ret' = Pending
    /\ UNCHANGED <<input, lx, pc, ast, clock, reads, result, checked_build>>

\* eval(right)? has returned: an error returns from this call too, else
\* left.add(right) or left.sub(right)
EvalRightDone ==
    /\ Running
    /\ Top.stage = "right"
    /\ ret.status # "Pending"
    /\ ret' = IF ret.status = "Err" THEN ret
              ELSE eval_binop(Top.left, Top.expr.op, ret.value)
    /\ stack' = Pop
    /\ UNCHANGED <<input, lx, pc, ast, clock, reads, result, checked_build>>

\* a panic unwinds out of eval and run: the process aborts
Unwind ==
    /\ pc = "eval"
    /\ ret.status = "Panic"
    /\ pc' = "panicked"
    /\ stack' = <<>>
    /\ UNCHANGED <<input, lx, ast, ret, clock, reads, result, checked_build>>

\* let result = eval(&ast).map_err(..)?; Ok(result.to_string())
Finish ==
    /\ pc = "eval"
    /\ stack = <<>>
    /\ ret.status \in {"Ok", "Err"}
    /\ result' = IF ret.status = "Ok" THEN RunOk(value_to_string(ret.value))
                 ELSE RunEvalErr(ret.err)
    /\ pc' = "done"
    /\ UNCHANGED <<input, lx, ast, stack, ret, clock, reads, checked_build>>

\* time passes while eval runs
Tick ==
    /\ pc = "eval"
    /\ stack # <<>>
    /\ clock < Len(ClockInstants)
    /\ clock' = clock + 1
    /\ UNCHANGED <<input, lx, pc, ast, stack, ret, reads, result, checked_build>>

Next ==
    \/ Parse
    \/ EvalBinOp
    \/ EvalLiteral
    \/ EvalKeyword
    \/ EvalLeftDone
    \/ EvalRightDone
    \/ Unwind
    \/ Finish
    \/ Tick

Spec == Init /\ [][Next]_vars

(***************************************************************************)
(* Properties.                                                             *)
(***************************************************************************)
\* the digit run of text that starts at cursor from: where it ends, and the
\* integer it denotes
Written(text, from) ==
    [end |-> eat_while_digit(text, from),
     n |-> parse_i64(text, from, eat_while_digit(text, from), BigZero).n]

\* text[i+1 .. j] is a maximal digit run whose value exceeds i64::MAX: it
\* has more than 19 significant digits, or 19 that come after
\* 9223372036854775807
ExceedsI64(text, i, j) ==
    /\ i < j
    /\ \A k \in (i + 1)..j : IsDigit(text[k])
    /\ i > 0 => ~IsDigit(text[i])
    /\ j < Len(text) => ~IsDigit(text[j + 1])
    /\ \E k \in (i + 1)..j :
          /\ text[k] # "0"
          /\ \A q \in (i + 1)..(k - 1) : text[q] = "0"
          /\ \/ j - k + 1 > 19
             \/ /\ j - k + 1 = 19
                /\ \E p \in 0..18 :
                      /\ DigitVal(text[k + p]) > DigitVal(I64MaxText[p + 1])
                      /\ \A q \in 0..(p - 1) : text[k + q] = I64MaxText[q + 1]

HasOverflowingRun(text) ==
    \E i \in 0..Len(text) : \E j \in i..Len(text) : ExceedsI64(text, i, j)

Parsed == pc # "parse"

\* C1: for every input, run ends with a success string or an error string
\* and never aborts the process: a duration literal too large for its unit
\* and a Date or DateTime moved out of the calendar yield an error value.
C1_RunNeverPanics == pc # "panicked" /\ ret.status # "Panic"

\* the operator table of Value::add and Value::sub: left kind, right kind,
\* result kind
AddTable ==
    { <<"Date", "Duration", "Date">>,
      <<"DateTime", "Duration", "DateTime">>,
      <<"Time", "Duration", "Time">>,
      <<"Duration", "Duration", "Duration">> }

SubTable == AddTable \cup { <<"Date", "Date", "Duration">> }

FollowsTable(l, op, r, out) ==
    LET hits == {e \in (IF op = "Add" THEN AddTable ELSE SubTable) :
                    e[1] = l.kind /\ e[2] = r.kind}
    IN  IF hits = {}
        THEN /\ out.status = "Err"
             /\ out.err.err = "InvalidOp"
             /\ out.err.op = op
             /\ type_name(out.err.left) = l.kind
             /\ type_name(out.err.right) = r.kind
        ELSE /\ out.status # "Err"
             /\ out.status = "Ok" => \E e \in hits : out.value.kind = e[3]

\* C2: every binary dispatch follows the operator table: a pair of kinds
\* outside the table (every Add but the four X + Duration, every Sub but
\* those and Date - Date) returns InvalidOp with the operator and both
\* operands; a pair inside it never does, and its value has the table's kind.
C2_DispatchFollowsTable ==
    [][(Running /\ Top.stage = "right" /\ ret.status = "Ok" /\ stack' # stack)
        => FollowsTable(Top.left, Top.expr.op, ret.value, ret')]_vars

\* Duration + Date, the reversed order, has been rejected
C2_Witness ==
    /\ pc = "done"
    /\ result.eval_err.err = "InvalidOp"
    /\ result.eval_err.op = "Add"
    /\ result.eval_err.left.kind = "Duration"
    /\ result.eval_err.right.kind = "Date"

\* C3: run returns "failed to parse expression: .." exactly when parse
\* fails and "failed to evaluate expression: .." exactly when parse
\* succeeds and eval fails; eval is never entered after a parse failure; a
\* success string is returned only when both stages succeed.
C3_PhasesNotConflated ==
    /\ (result.status = "Err" /\ result.prefix = "failed to parse expression: ")
          <=> (Parsed /\ ~ast.ok)
    /\ (result.status = "Err" /\ result.prefix = "failed to evaluate expression: ")
          <=> (pc = "done" /\ ast.ok /\ ret.status = "Err")
    /\ (Parsed /\ ~ast.ok) => (pc = "done" /\ stack = <<>> /\ ret = Pending /\ reads = <<>>)
    /\ result.status = "Ok" => (ast.ok /\ ret.status = "Ok")
    /\ result.status \in {"Ok", "Err"} <=> pc = "done"

C3_Witness ==
    /\ pc = "done"
    /\ ast.ok
    /\ result.status = "Err"
    /\ result.prefix = "failed to evaluate expression: "

\* C4: when the input holds a digit run whose value exceeds i64::MAX, parse
\* returns an error, wherever the run stands.
C4_OverflowingRunFailsParse ==
    (Parsed /\ HasOverflowingRun(input)) => ~ast.ok

\* the numbers of a date literal Y/M/D as written, for a text that starts
\* with one
WrittenDate(text) ==
    LET y == Written(text, 0)
        m == Written(text, y.end + 1)
        d == Written(text, m.end + 1)
    IN  [year |-> y.n, month |-> m.n, day |-> d.n, end |-> d.end]

\* the numbers as written form a calendar date
IsCalendarDate(w) ==
    /\ InRange(w.year, 0, MAX_YEAR)
    /\ InRange(w.month, 1, 12)
    /\ InRange(w.day, 1, days_in_month(BigToInt(w.year), BigToInt(w.month)))

\* C5: a date or datetime literal whose month as written is outside 1..12
\* fails with InvalidMonth, one whose day as written is no day of the
\* written month and year fails with InvalidDate, and a date is produced
\* only when the numbers as written form a calendar date, and is that date.
C5_DateAsWritten ==
    (pc = "done" /\ input \in DateTexts \cup DateTimeTexts) =>
        LET w == WrittenDate(input)
        IN  /\ ~InRange(w.month, 1, 12) =>
                  (result.status = "Err" /\ result.eval_err.err = "InvalidMonth")
            /\ (InRange(w.month, 1, 12) /\ ~IsCalendarDate(w)) =>
                  (result.status = "Err" /\ result.eval_err.err = "InvalidDate")
            /\ result.status = "Ok" =>
                  /\ IsCalendarDate(w)
                  /\ ret.value.date =
                        Date(BigToInt(w.year), BigToInt(w.month), BigToInt(w.day))

\* the numbers of a time H:M as written, for a text that holds one at from
WrittenTime(text, from) ==
    LET h == Written(text, from)
        m == Written(text, h.end + 1)
    IN  [hour |-> h.n, minute |-> m.n]

\* C6: a 24-hour time H:M, alone or after a date, whose H as written is
\* above 23 or whose M as written is above 59 fails (with InvalidTime when
\* the date before it is a calendar date), and a time is produced only when
\* H and M as written are on the 24-hour clock, and has that hour and minute.
C6_TimeAsWritten ==
    (pc = "done" /\ input \in TimeTexts \cup DateTimeTexts) =>
        LET dated == input \in DateTimeTexts
            w == WrittenTime(input, IF dated THEN WrittenDate(input).end + 1 ELSE 0)
            onClock == InRange(w.hour, 0, 23) /\ InRange(w.minute, 0, 59)
        IN  /\ ~onClock => result.status = "Err"
            /\ (~onClock /\ (dated => IsCalendarDate(WrittenDate(input)))) =>
                  result.eval_err.err = "InvalidTime"
            /\ result.status = "Ok" =>
                  /\ onClock
                  /\ ret.value.time = Time(BigToInt(w.hour), BigToInt(w.minute), 0, 0)

\* C7: N am is Time(N, 0) for N in 1..11 and Time(0, 0) for 12; N pm is
\* Time(N + 12, 0) for N in 1..11 and Time(12, 0) for 12; every other N is
\* the parse error InvalidTime; so every accepted literal has an hour of
\* 0..23 and minute 0.
C7_AmPm ==
    (Parsed /\ input \in AmPmTexts) =>
        LET n == Written(input, 0).n
            pm == input[Len(input) - 1] = "p"
            hour == IF InRange(n, 12, 12) THEN (IF pm THEN 12 ELSE 0)
                    ELSE IF pm THEN BigToInt(n) + 12 ELSE BigToInt(n)
        IN  IF InRange(n, 1, 12)
            THEN /\ ast.ok
                 /\ ast.expr = ExprTime(hour, 0)
                 /\ ast.expr.hour \in 0..23
            ELSE /\ ~ast.ok
                 /\ ast.err.err = "InvalidTime"

\* 12 am has been parsed to midnight
C7_Witness ==
    /\ Parsed
    /\ input = <<"1", "2", "a", "m">>
    /\ ast.ok
    /\ ast.expr = ExprTime(0, 0)

\* C8: once next_token has returned Eof, every later call and every later
\* pull from the iterator returns Eof again and leaves the cursor where it
\* is, and the iterator never yields None.
C8_EofIsSticky ==
    [][/\ lx'.yielded # "None"
       /\ lx.last.type = "Eof" => (lx'.last.type = "Eof" /\ lx'.cursor = lx.cursor)]_vars

\* Eof has been returned three times, by next_token and by the iterator
C8_Witness ==
    /\ lx.eofs >= 3
    /\ lx.yielded = "Some"
    /\ Len(input) > 0
    /\ lx.cursor = Len(input)

\* the characters next_token has an arm for
Lexable(c) == c \in {" ", "+", "-", ":", "/"} \/ IsDigit(c) \/ IsAlpha(c)

\* C9: only the space is skipped: every character next_token has no arm for
\* gives an Illegal token at its position, whatever stands before it.
C9_OnlySpaceIsSkipped ==
    \A p \in (lx.prev + 1)..lx.cursor :
        ~Lexable(input[p]) => (lx.last.type = "Illegal" /\ lx.cursor = p)

\* C10: one evaluation reads the wall clock at most once, so every keyword
\* of an expression is resolved against the same instant.
C10_OneClockRead == Len(reads) <= 1

\* two decimal digits
TwoDigits(n) == Digits[(n \div 10) + 1] \o Digits[(n % 10) + 1]

RECURSIVE Pow10(_)
Pow10(k) == IF k = 0 THEN 1 ELSE 10 * Pow10(k - 1)

\* digit k (1 the first) of the nine-digit nanosecond value
NanoDigit(ns, k) == (ns \div Pow10(9 - k)) % 10

\* the first k digits of the nine-digit nanosecond value
RECURSIVE NanoPrefix(_, _)
NanoPrefix(ns, k) ==
    IF k = 0 THEN "" ELSE NanoPrefix(ns, k - 1) \o Digits[NanoDigit(ns, k) + 1]

\* the nine digits up to the last one that is not 0
Fraction(ns) ==
    NanoPrefix(ns, CHOOSE k \in 0..9 :
                       /\ k > 0 => NanoDigit(ns, k) # 0
                       /\ \A j \in (k + 1)..9 : NanoDigit(ns, j) = 0)

\* run has returned the text of a Time or of a DateTime
TimeRendered ==
    pc = "done" /\ result.status = "Ok" /\ ret.value.kind \in {"Time", "DateTime"}

\* the returned text is HH:MM followed by the seconds field sec and the
\* fraction frac (inside the date and the offset, for a DateTime)
RenderedAs(sec, frac) ==
    LET t == ret.value.time
        body == TwoDigits(t.hour) \o ":" \o TwoDigits(t.minute) \o sec \o frac
    IN  result.text = IF ret.value.kind = "Time" THEN body
                      ELSE write_date(ret.value.date) \o " " \o body \o " +00:00"

\* C11, as stated: a rendered time is HH:MM, with a :SS field only if the
\* second is not 0 and a .frac part only if the nanoseconds are not 0.
C11_SecondsOnlyIfSecondNonZero ==
    TimeRendered =>
        LET t == ret.value.time
        IN  \E sec \in {"", ":" \o TwoDigits(t.second)} :
            \E frac \in {"", "." \o Fraction(t.nanosecond)} :
                /\ RenderedAs(sec, frac)
                /\ sec # "" => t.second # 0
                /\ frac # "" => t.nanosecond # 0

\* C11, amended: a rendered time is HH:MM, with a :SS field exactly when the
\* second or the nanoseconds are not 0, and a .frac part exactly when the
\* nanoseconds are not 0, the fraction being the nine-digit nanosecond value
\* without its trailing zeros.
C11_TimeText ==
    TimeRendered =>
        LET t == ret.value.time
        IN  RenderedAs(IF t.second # 0 \/ t.nanosecond # 0
                       THEN ":" \o TwoDigits(t.second) ELSE "",
                       IF t.nanosecond # 0
                       THEN "." \o Fraction(t.nanosecond) ELSE "")

\* a time of second 0 with nanoseconds has been rendered
C11_Witness ==
    /\ TimeRendered
    /\ ret.value.time.second = 0
    /\ ret.value.time.nanosecond # 0

\* four decimal digits
FourDigits(n) == TwoDigits(n \div 100) \o TwoDigits(n % 100)

\* C12: every Date the evaluator produces, from a literal, a keyword or
\* Date +/- Duration, years before 1 included, is rendered YYYY-MM-DD with
\* at least four digits of year and two digits of month and of day.
C12_DateText ==
    (pc = "done" /\ result.status = "Ok" /\ ret.value.kind = "Date") =>
        LET d == ret.value.date
            abs == IF d.year < 0 THEN -d.year ELSE d.year
        IN  \E sign \in {"", "-"} :
                result.text = sign \o FourDigits(abs) \o "-" \o TwoDigits(d.month)
                                   \o "-" \o TwoDigits(d.day)

\* where the operators of a chain stand: a + or - between two spaces
OpPositions(text) ==
    {i \in 2..(Len(text) - 1) :
        text[i] \in {"+", "-"} /\ text[i - 1] = " " /\ text[i + 1] = " "}

\* the k-th of them, from the left
NthOp(text, k) ==
    CHOOSE i \in OpPositions(text) :
        Cardinality({j \in OpPositions(text) : j < i}) = k - 1

\* the text of primary k of the chain, k = 0 for the first
PrimaryText(text, k) ==
    SubSeq(text,
           IF k = 0 THEN 1 ELSE NthOp(text, k) + 2,
           IF k = Cardinality(OpPositions(text)) THEN Len(text) ELSE NthOp(text, k + 1) - 2)

\* seg alone is one primary: it parses, to no BinOp, and nothing is left
IsPrimary(seg) ==
    Let(parse(seg, 0), LAMBDA r :
        r.ok /\ r.expr.kind # "BinOp" /\ peek(seg, r.ts).tok.type = "Eof")

IsChainOfPrimaries(text) ==
    \A k \in 0..Cardinality(OpPositions(text)) : IsPrimary(PrimaryText(text, k))

\* the tree the claim names for the first n operators of the chain
RECURSIVE LeftNested(_, _)
LeftNested(text, n) ==
    IF n = 0 THEN parse(PrimaryText(text, 0), 0).expr
    ELSE ExprBinOp(LeftNested(text, n - 1),
                   IF text[NthOp(text, n)] = "+" THEN "Add" ELSE "Sub",
                   parse(PrimaryText(text, n), 0).expr)

\* C13: a chain p0 op1 p1 ... opN pN of primaries parses to the left-nested
\* tree BinOp(..BinOp(BinOp(p0, op1, p1), op2, p2).., opN, pN): operators in
\* their written order, no precedence, every primary once and in order.
C13_LeftNested ==
    [][(pc = "parse" /\ pc' # "parse" /\ IsChainOfPrimaries(input)) =>
          /\ ast'.ok
          /\ ast'.expr = LeftNested(input, Cardinality(OpPositions(input)))]_vars

\* a chain of three primaries, + then -, has been parsed
C13_Witness ==
    /\ Parsed
    /\ IsChainOfPrimaries(input)
    /\ Cardinality(OpPositions(input)) = 2
    /\ ast.ok
    /\ ast.expr.kind = "BinOp"
    /\ ast.expr.op = "Sub"
    /\ ast.expr.left.kind = "BinOp"
    /\ ast.expr.left.op = "Add"
    /\ ast.expr.right.kind # "BinOp"

\* the Gregorian calendar, day by day and month by month
LeapYear(y) == y % 4 = 0 /\ (y % 100 # 0 \/ y % 400 = 0)

MonthLength(y, m) ==
    IF m = 2 THEN (IF LeapYear(y) THEN 29 ELSE 28)
    ELSE IF m \in {4, 6, 9, 11} THEN 30 ELSE 31

NextDay(d) ==
    IF d.day < MonthLength(d.year, d.month) THEN Date(d.year, d.month, d.day + 1)
    ELSE IF d.month < 12 THEN Date(d.year, d.month + 1, 1)
    ELSE Date(d.year + 1, 1, 1)

PrevDay(d) ==
    IF d.day > 1 THEN Date(d.year, d.month, d.day - 1)
    ELSE IF d.month > 1 THEN Date(d.year, d.month - 1, MonthLength(d.year, d.month - 1))
    ELSE Date(d.year - 1, 12, 31)

\* d moved n days, forward for n > 0 and back for n < 0: within the month
\* of d when the move stays in it, else on from the first day of the next
\* month or from the last day of the month before
RECURSIVE DayStep(_, _)
DayStep(d, n) ==
    IF n >= 0
    THEN IF n <= MonthLength(d.year, d.month) - d.day
         THEN Date(d.year, d.month, d.day + n)
         ELSE DayStep(NextDay(Date(d.year, d.month, MonthLength(d.year, d.month))),
                      n - (MonthLength(d.year, d.month) - d.day) - 1)
    ELSE IF -n < d.day
         THEN Date(d.year, d.month, d.day + n)
         ELSE DayStep(PrevDay(Date(d.year, d.month, 1)), n + d.day)

\* out is the Date d moved by the whole days of the duration x, forward
\* when fwd, and by nothing of what is left of x
ShiftedByWholeDays(d, x, fwd, out) ==
    /\ out.status # "Err"
    /\ out.status = "Ok" =>
          /\ out.value.kind = "Date"
          /\ \E n \in 0..MaxShiftDays :
                /\ BigLeq(BigOfInt(n * 86400), x.mag)
                /\ BigLess(x.mag, BigOfInt((n + 1) * 86400))
                /\ out.value.date = DayStep(d, IF fwd = x.neg THEN -n ELSE n)

\* the date of the first clock read
TodayRead == now_utc(reads[1]).date

\* C14: Date + Duration and Date - Duration are the date moved by the whole
\* days of the duration, what is left of it dropped at every step: today +
\* 2h does not fail and is rendered as today, today + 12h + 12h is today and
\* today + 24h is tomorrow.
C14_WholeDaysOnly ==
    [][/\ (/\ Running /\ Top.stage = "right" /\ ret.status = "Ok" /\ stack' # stack
           /\ Top.left.kind = "Date" /\ ret.value.kind = "Duration")
          => ShiftedByWholeDays(Top.left.date, ret.value.secs,
                                Top.expr.op = "Add", ret')
       /\ (pc' = "done" /\ pc # "done" /\ input \in DayShiftTexts /\ input[7] = "+")
          => /\ result'.status = "Ok"
             /\ result'.text = write_date(IF input[9] = "2" /\ input[10] = "4"
                                          THEN NextDay(TodayRead) ELSE TodayRead)]_vars

\* today + 12h + 12h has been rendered as the day of the clock read
C14_Witness ==
    /\ pc = "done"
    /\ Len(input) = 17
    /\ input \in DayShiftTexts
    /\ result.status = "Ok"
    /\ result.text = write_date(TodayRead)

\* the one space of text, when it has exactly one, else 0
OnlySpace(text) ==
    IF Cardinality({i \in 1..Len(text) : text[i] = " "}) = 1
    THEN CHOOSE i \in 1..Len(text) : text[i] = " "
    ELSE 0

DatePart(text) == SubSeq(text, 1, OnlySpace(text) - 1)
TimePart(text) == SubSeq(text, OnlySpace(text) + 1, Len(text))

\* text is a date literal, a space, and a time literal of either form
DateThenTime(text) ==
    /\ OnlySpace(text) > 1
    /\ IsPrimary(DatePart(text))
    /\ parse(DatePart(text), 0).expr.kind = "Date"
    /\ IsPrimary(TimePart(text))
    /\ parse(TimePart(text), 0).expr.kind = "Time"

\* C15: a date literal followed by a time in either form, H:M or N am/pm,
\* parses to the DateTime of that date and that time, as the grammar above
\* parse states (<datetime> ::= <date> <time>?).
C15_DateThenEitherTime ==
    (Parsed /\ DateThenTime(input)) =>
        LET d == parse(DatePart(input), 0).expr
            t == parse(TimePart(input), 0).expr
        IN  /\ ast.ok
            /\ ast.expr = ExprDateTime(d.year, d.month, d.day, t.hour, t.minute)

\* C16: parse returns Ok only when the whole token stream is consumed: the
\* token after the expression it returns is Eof, so a token left over (a
\* second primary, a stray : or /, an Illegal token) makes parse fail.
C16_WholeInputConsumed ==
    (Parsed /\ ast.ok) => peek(input, ast.ts).tok.type = "Eof"

\* C17: a datetime literal Y/M/D H:M2 validates its date as the date literal
\* Y/M/D does: it evaluates exactly when the date literal evaluates and H:M2
\* is a time, fails with the date literal's InvalidMonth or InvalidDate
\* otherwise, years out of range included, and on success has the date
\* literal's date and the offset UTC.
C17_SameDateValidation ==
    (pc = "done" /\ ast.ok /\ ast.expr.kind = "DateTime" /\ OnlySpace(input) > 1) =>
        LET date == eval_literal(parse(DatePart(input), 0).expr, checked_build)
            time == from_time(ast.expr.hour, ast.expr.minute, 0)
        IN  /\ ret.status = "Ok" <=> (date.status = "Ok" /\ time.status = "Ok")
            /\ date.status = "Err" => ret = date
            /\ ret.status = "Ok" =>
                  /\ ret.value.date = date.value.date
                  /\ ret.value.offset = 0

====
